---- MODULE Spec2Model ----
(***************************************************************************)
(* Multi-agent coordination workflow of the Feynman learning system.       *)
(*                                                                         *)
(* The workflow is a LangGraph StateGraph over MultiAgentState: the node   *)
(* coordinator_entry asks the Coordinator agent for a decision, the        *)
(* conditional edge _route_next_step picks the next node, every processing *)
(* node returns to coordinator_entry, and the graph stops at END or when   *)
(* LangGraph's recursion limit is reached.                                 *)
(***************************************************************************)
EXTENDS Integers, Sequences, FiniteSets, TLC

\* ------------------------------------------------------------------ bounds
\* The recursion_limit config key handed to workflow_graph.ainvoke.  It is a
\* configured value (25 is LangGraph's default, execute_workflow passes 50);
\* the model is checked with a smaller configured limit that still leaves
\* room for all five stages, finalization and the final routing step.
recursion_limit == 14

\* Tasks added to the AsyncTaskQueue, largest max_retries a task is given
\* (the default is 3), and worker coroutines started (max_workers, 5 in the
\* global instance).
MaxTasks == 2

MaxRetriesBound == 2

NumWorkers == 2

\* Largest maxRetries handed to withRetry (its default is 3).
MaxRetriesArg == 5

\* CircuitBreaker(failure_threshold, timeout): the configured values (the
\* defaults are 5 failures and 60 seconds), the latest clock reading and the
\* number of calls that may be awaiting the wrapped function at once.
failure_threshold == 2

timeout == 2

MaxTime == 5

MaxInFlight == 2

\* Chat requests submitted, chunks streamed per request, and times the chat
\* panel is mounted in the scene.
MaxRequests == 2

MaxChunks == 2

MaxMounts == 2

\* --------------------------------------------------------- program constants
\* The five Stage Agent nodes, in the order the graph adds them.
Stages == {"explanation_analysis", "knowledge_validation", "question_generation",
           "conversation_orchestration", "insight_synthesis"}

\* required_tasks of _route_next_step
required_tasks == {"explanation_analysis", "question_generation"}

\* route_mapping of _route_next_step: the keys it knows
route_mapping == Stages \cup {"finalization"}

\* Marker the finalization node appends to completed_tasks
FinalizationTask == "coordinator_finalization"

\* Agents that are awaited by some node
Agents == Stages \cup {"coordinator", FinalizationTask}

\* coordinator_decision before any successful Coordinator call (Optional[Dict])
NoDecision == [next_phase |-> "none"]

\* Decisions the Coordinator agent can return in response.result: any key of
\* route_mapping as next_phase (the agent is an LLM call, its choice is free).
Decisions == [next_phase : route_mapping]

CoordinationStrategies == {"sequential", "parallel"}

\* Inputs of a learning turn: an empty text or some text.
Texts == {"", "Python GIL"}

VARIABLES
  topic,                  \* MultiAgentState.topic, input of the turn
  user_explanation,       \* MultiAgentState.user_explanation, input of the turn
  pc,                     \* node the graph is executing, END, or recursion_error
  steps,                  \* LangGraph supersteps executed in this invocation
  coordination_strategy,  \* set_coordination_strategy(...) before execute_workflow
  current_phase,          \* MultiAgentState.current_phase
  coordinator_decision,   \* MultiAgentState.coordinator_decision
  stage_results,          \* stages whose *_results entry has been written
  final_questions,        \* TRUE once final_questions has been extracted
  learning_insights,      \* TRUE once learning_insights has been extracted
  learning_report,        \* TRUE once learning_report has been written
  completed_tasks,        \* MultiAgentState.completed_tasks (a list)
  error_log,              \* MultiAgentState.error_log (a list)
  inflight,               \* stages of a concurrent batch not yet returned
  hung,                   \* awaited agent calls that will never return by themselves
  events,                 \* types of the events stream_multi_agent_workflow has sent
  failed,                 \* history: "none", the only agent that has failed, or "several"
  \* AsyncTaskQueue
  running,                \* AsyncTaskQueue.running
  tasks,                  \* AsyncTaskQueue.tasks: id -> Task (status "ABSENT" before add_task)
  task_queue,             \* AsyncTaskQueue.task_queue: ids in the order get() returns them
  workers,                \* worker -> id of the task it is executing, 0 while it waits in get()
  \* FeynmanAPI.withRetry
  retry_pc,               \* "idle", "attempting", "waiting", "resolved", "rejected"
  retry_args,             \* the arguments maxRetries and delay of the call
  attempt,                \* loop variable attempt
  delay,                  \* parameter delay, doubled after every wait
  lastError,              \* attempt whose error lastError holds, 0 for undefined
  retry_result,           \* attempt whose result the promise resolved with, 0 for none
  calls,                  \* calls of operation() made so far
  waits,                  \* the delays waited so far, in order
  \* CircuitBreaker
  cb_state,               \* CircuitBreaker.state: "CLOSED", "OPEN", "HALF_OPEN"
  failure_count,          \* CircuitBreaker.failure_count
  last_failure_time,      \* CircuitBreaker.last_failure_time, -1 for None
  now,                    \* time.time()
  in_flight,              \* calls awaiting the wrapped function
  cb_last,                \* what the breaker did last: "none", "rejected", "invoked", "returned", "raised"
  \* gameStore
  isChatOpen,             \* GameState.isChatOpen
  currentTopic,           \* GameState.currentTopic
  cameraFocusTarget,      \* GameState.cameraFocusTarget: "null", "undefined" or a position
  isCameraAnimating,      \* GameState.isCameraAnimating
  wisdomTrees,            \* number of entries of GameState.wisdomTrees
  completedTopics,        \* GameState.completedTopics
  \* ChatModal
  chat_instance,          \* mounted ChatModal instance, 0 when none is mounted
  mounts,                 \* ChatModal instances mounted so far
  messages,               \* useState messages of the mounted instance
  input,                  \* useState input of the mounted instance
  isLoading,              \* useState isLoading of the mounted instance
  requests                \* streamChat calls: request id -> instance, phase, text length, chunks

state_vars == <<current_phase, coordinator_decision, stage_results, final_questions,
                learning_insights, learning_report, completed_tasks, error_log>>

workflow_vars == <<topic, user_explanation, pc, steps, coordination_strategy, current_phase, coordinator_decision,
          stage_results, final_questions, learning_insights, learning_report,
          completed_tasks, error_log, inflight, hung, events, failed>>

queue_vars == <<running, tasks, task_queue, workers>>

retry_vars == <<retry_pc, retry_args, attempt, delay, lastError, retry_result, calls, waits>>

breaker_vars == <<cb_state, failure_count, last_failure_time, now, in_flight, cb_last>>

store_vars == <<isChatOpen, currentTopic, cameraFocusTarget, isCameraAnimating,
                wisdomTrees, completedTopics>>

chat_vars == <<chat_instance, mounts, messages, input, isLoading, requests>>

non_workflow_vars == <<queue_vars, retry_vars, breaker_vars, store_vars, chat_vars>>

non_queue_vars == <<workflow_vars, retry_vars, breaker_vars, store_vars, chat_vars>>

non_retry_vars == <<workflow_vars, queue_vars, breaker_vars, store_vars, chat_vars>>

non_breaker_vars == <<workflow_vars, queue_vars, retry_vars, store_vars, chat_vars>>

non_webapp_vars == <<workflow_vars, queue_vars, retry_vars, breaker_vars>>

vars == <<workflow_vars, queue_vars, retry_vars, breaker_vars, store_vars, chat_vars>>

\* ----------------------------------------------------------------- helpers
Range(s) == {s[i] : i \in 1..Len(s)}

Count(s, x) == Cardinality({i \in 1..Len(s) : s[i] = x})

Terminal == {"END", "recursion_error"}

\* Name under which the history records the except branch of the
\* finalization node ("最终协调异常").
FinalizationException == "finalization_exception"

\* history of failures: remembers the single failing agent, or "several"
RecordFailure(a, out) ==
  IF out = "ok" THEN failed
  ELSE IF failed \in {"none", a} THEN a ELSE "several"

\* ------------------------------------------------------ awaited agent calls
\* Variant of the awaited call without a timeout: a hanging call is never
\* resolved.
CallResolves_NoTimeout(a, out) ==
  a \notin hung /\ out \in {"ok", "failed"}

\* set_agent_timeout: a call that hangs is resolved by the timeout wrapper as
\* a failed response with error "timeout"; a call that returns is ok or failed.
CallResolves(a, out) ==
  IF a \in hung THEN out = "timeout" ELSE out \in {"ok", "failed"}

\* Variant of the limit check that lets two more supersteps through.
RecursionLimitReached_Late == steps >= recursion_limit + 2

\* LangGraph stops the run once recursion_limit supersteps were executed
\* without reaching END ("Recursion limit of N reached without hitting a
\* stop condition").
RecursionLimitReached == steps >= recursion_limit

\* ------------------------------------------------------------------ routing
all_required_completed(ct) == \A task \in required_tasks : task \in Range(ct)

\* Variant of the route that dispatches the decided stage without looking at
\* completed_tasks.
RouteNextStep_NoCompletedCheck(decision, ct) ==
  IF all_required_completed(ct) THEN "finalization"
  ELSE IF FinalizationTask \in Range(ct) THEN "end"
  ELSE LET next_phase == IF decision = NoDecision THEN "explanation_analysis"
                         ELSE decision.next_phase
       IN IF next_phase \in route_mapping THEN next_phase ELSE "finalization"

\* Variant of the route as it was before the fix: the required tasks end the
\* run only together with current_phase = "completed", which the entry node
\* has overwritten by the time the route is evaluated.
RouteNextStep_WeakTermination(decision, ct) ==
  IF FinalizationTask \in Range(ct) THEN "end"
  ELSE LET next_phase == IF decision = NoDecision THEN "explanation_analysis"
                         ELSE decision.next_phase
       IN IF next_phase \in route_mapping /\ next_phase \notin Range(ct)
          THEN next_phase
          ELSE "finalization"

\* _route_next_step after the recursion-limit fix: the two termination tests
\* of the fixed version, in their order, followed by the mapping of the
\* Coordinator's next_phase and the default to finalization.
RouteNextStep(decision, ct) ==
  IF all_required_completed(ct) THEN "finalization"
  ELSE IF FinalizationTask \in Range(ct) THEN "end"
  ELSE LET next_phase == IF decision = NoDecision THEN "explanation_analysis"
                         ELSE decision.next_phase
       IN IF next_phase \in route_mapping /\ next_phase \notin Range(ct)
          THEN next_phase
          ELSE "finalization"

\* The stages the dispatch flow runs side by side ("par" block of the
\* sequence diagram): explanation analysis and knowledge validation.
ParallelAnalysisStages == {"explanation_analysis", "knowledge_validation"}

\* Batches the Router may run concurrently instead of stage s alone under
\* strategy=parallel: the parallel analysis stages, when s is one of them and
\* neither has completed yet.
ParallelBatches(s, ct) ==
  IF s \in ParallelAnalysisStages /\ ParallelAnalysisStages \cap Range(ct) = {}
  THEN {ParallelAnalysisStages}
  ELSE {}

\* Variant of the input validation that accepts every input.
ValidInput_NoCheck(t, e) == TRUE

\* Construction of the session state accepts the inputs only when both the
\* topic and the explanation are non-empty.
ValidInput(t, e) == t # "" /\ e # ""

\* ----------------------------------------------------------- AsyncTaskQueue
TaskIds == 1..MaxTasks

Workers == 1..NumWorkers

Priorities == {0, 1}

\* Task before add_task has created it
AbsentTask == [status |-> "ABSENT", priority |-> 0, max_retries |-> 0,
               retry_count |-> 0, executions |-> 0]

\* AsyncTaskQueue.__init__
QueueInit ==
  /\ running = FALSE
  /\ tasks = [t \in TaskIds |-> AbsentTask]
  /\ task_queue = <<>>
  /\ workers = [w \in Workers |-> 0]

\* task_queue.put((-task.priority, <now>, task.id)): the entry goes behind
\* every entry of the same or a higher priority, all of which are older.
QueuePut(q, t) ==
  LET ahead == SelectSeq(q, LAMBDA u : tasks[u].priority >= tasks'[t].priority)
      behind == SelectSeq(q, LAMBDA u : tasks[u].priority < tasks'[t].priority)
  IN ahead \o <<t>> \o behind

\* Variant of the retry test that allows one attempt too many.
CanRetry_OffByOne(task) == task.retry_count <= task.max_retries

\* `if task.retry_count < task.max_retries` of _execute_task
CanRetry(task) == task.retry_count < task.max_retries

\* AsyncTaskQueue.start
QueueStart ==
  /\ ~running
  /\ running' = TRUE
  /\ workers' = [w \in Workers |-> 0]
  /\ UNCHANGED <<non_queue_vars, tasks, task_queue>>

\* AsyncTaskQueue.stop: the workers are cancelled where they are; a task in
\* execution is abandoned in status RUNNING.
QueueStop ==
  /\ running
  /\ running' = FALSE
  /\ workers' = [w \in Workers |-> 0]
  /\ UNCHANGED <<non_queue_vars, tasks, task_queue>>

\* AsyncTaskQueue.add_task
AddTask(priority, max_retries) ==
  /\ \E t \in TaskIds :
       /\ tasks[t].status = "ABSENT"
       /\ \A u \in 1..(t - 1) : tasks[u].status # "ABSENT"
       /\ tasks' = [tasks EXCEPT ![t] = [status |-> "PENDING", priority |-> priority,
                                         max_retries |-> max_retries,
                                         retry_count |-> 0, executions |-> 0]]
       /\ task_queue' = QueuePut(task_queue, t)
  /\ UNCHANGED <<non_queue_vars, running, workers>>

\* _worker takes the next id from the queue and _execute_task starts the
\* task: status RUNNING, then the await of task.func.
WorkerTakesTask(w) ==
  /\ running
  /\ workers[w] = 0
  /\ task_queue # <<>>
  /\ LET t == Head(task_queue) IN
       /\ task_queue' = Tail(task_queue)
       /\ tasks' = [tasks EXCEPT ![t].status = "RUNNING",
                                 ![t].executions = @ + 1]
       /\ workers' = [workers EXCEPT ![w] = t]
  /\ UNCHANGED <<non_queue_vars, running>>

\* task.func returns: the success branch of _execute_task
TaskSucceeds(w) ==
  /\ workers[w] # 0
  /\ tasks' = [tasks EXCEPT ![workers[w]].status = "COMPLETED"]
  /\ workers' = [workers EXCEPT ![w] = 0]
  /\ UNCHANGED <<non_queue_vars, running, task_queue>>

\* task.func raises: the except branch of _execute_task
TaskFails(w) ==
  /\ workers[w] # 0
  /\ LET t == workers[w] IN
       IF CanRetry(tasks[t])
       THEN /\ tasks' = [tasks EXCEPT ![t].retry_count = @ + 1,
                                      ![t].status = "RETRY"]
            /\ task_queue' = QueuePut(task_queue, t)
       ELSE /\ tasks' = [tasks EXCEPT ![t].status = "FAILED"]
            /\ UNCHANGED task_queue
  /\ workers' = [workers EXCEPT ![w] = 0]
  /\ UNCHANGED <<non_queue_vars, running>>

QueueNext ==
  \/ QueueStart
  \/ QueueStop
  \/ \E priority \in Priorities, max_retries \in 0..MaxRetriesBound :
       AddTask(priority, max_retries)
  \/ \E w \in Workers : WorkerTakesTask(w)
  \/ \E w \in Workers : TaskSucceeds(w)
  \/ \E w \in Workers : TaskFails(w)

\* ------------------------------------------------------ FeynmanAPI.withRetry
\* Initial delays the callers pass, in milliseconds (1000 is the default).
Delays == {1, 1000, 2000}

\* No withRetry call has been made.
RetryInit ==
  /\ retry_pc = "idle"
  /\ retry_args = [maxRetries |-> 0, delay |-> 0]
  /\ attempt = 0
  /\ delay = 0
  /\ lastError = 0
  /\ retry_result = 0
  /\ calls = 0
  /\ waits = <<>>

\* Variant of the backoff that waits the same time before every retry.
NextDelay_Constant(d) == d

\* `delay *= 2`
NextDelay(d) == d * 2

\* The head of the for loop: the next attempt calls operation(), or the loop
\* is left and `throw lastError` after it rejects.
EnterAttempt(n, maxRetries) ==
  /\ attempt' = n
  /\ IF n <= maxRetries
     THEN retry_pc' = "attempting" /\ calls' = calls + 1
     ELSE retry_pc' = "rejected" /\ UNCHANGED calls

\* withRetry(operation, maxRetries, delay) is called
WithRetry(maxRetries, d) ==
  /\ retry_pc = "idle"
  /\ retry_args' = [maxRetries |-> maxRetries, delay |-> d]
  /\ delay' = d
  /\ EnterAttempt(1, maxRetries)
  /\ UNCHANGED <<non_retry_vars, lastError, retry_result, waits>>

\* `return await operation()` with operation resolving
OperationResolves ==
  /\ retry_pc = "attempting"
  /\ retry_pc' = "resolved"
  /\ retry_result' = attempt
  /\ UNCHANGED <<non_retry_vars, retry_args, attempt, delay, lastError, calls, waits>>

\* operation rejects: the catch block up to the await of the timer
OperationRejects ==
  /\ retry_pc = "attempting"
  /\ lastError' = attempt
  /\ IF attempt = retry_args.maxRetries
     THEN retry_pc' = "rejected" /\ UNCHANGED waits
     ELSE retry_pc' = "waiting" /\ waits' = Append(waits, delay)
  /\ UNCHANGED <<non_retry_vars, retry_args, attempt, delay, retry_result, calls>>

\* The timer fires: the delay is doubled and the loop goes round.
TimerFires ==
  /\ retry_pc = "waiting"
  /\ delay' = NextDelay(delay)
  /\ EnterAttempt(attempt + 1, retry_args.maxRetries)
  /\ UNCHANGED <<non_retry_vars, retry_args, lastError, retry_result, waits>>

RetryNext ==
  \/ \E maxRetries \in 0..MaxRetriesArg, d \in Delays : WithRetry(maxRetries, d)
  \/ OperationResolves
  \/ OperationRejects
  \/ TimerFires

\* ----------------------------------------------------------- CircuitBreaker
\* CircuitBreaker.__init__
BreakerInit ==
  /\ cb_state = "CLOSED"
  /\ failure_count = 0
  /\ last_failure_time = -1
  /\ now = 0
  /\ in_flight = 0
  /\ cb_last = "none"

\* Variant of the timeout test that lets a call through when exactly timeout
\* seconds have passed.
TimeoutElapsed_Inclusive(t, last) == t - last >= timeout

\* `time.time() - self.last_failure_time > self.timeout`
TimeoutElapsed(t, last) == t - last > timeout

\* The clock advances.
Tick ==
  /\ now < MaxTime
  /\ now' = now + 1
  /\ UNCHANGED <<non_breaker_vars, cb_state, failure_count, last_failure_time,
                 in_flight, cb_last>>

\* CircuitBreaker.call up to `await func(...)`: an OPEN breaker rejects the
\* call, or turns HALF_OPEN once the timeout has elapsed; the wrapped
\* function is invoked otherwise.
BreakerCall ==
  /\ in_flight < MaxInFlight
  /\ IF cb_state = "OPEN" /\ ~TimeoutElapsed(now, last_failure_time)
     THEN /\ cb_last' = "rejected"
          /\ UNCHANGED <<cb_state, in_flight>>
     ELSE /\ cb_state' = IF cb_state = "OPEN" THEN "HALF_OPEN" ELSE cb_state
          /\ in_flight' = in_flight + 1
          /\ cb_last' = "invoked"
  /\ UNCHANGED <<non_breaker_vars, failure_count, last_failure_time, now>>

\* The wrapped function returns: the rest of the try block.
FuncReturns ==
  /\ in_flight > 0
  /\ in_flight' = in_flight - 1
  /\ IF cb_state = "HALF_OPEN"
     THEN cb_state' = "CLOSED" /\ failure_count' = 0
     ELSE UNCHANGED <<cb_state, failure_count>>
  /\ cb_last' = "returned"
  /\ UNCHANGED <<non_breaker_vars, last_failure_time, now>>

\* The wrapped function raises: the except block.
FuncRaises ==
  /\ in_flight > 0
  /\ in_flight' = in_flight - 1
  /\ failure_count' = failure_count + 1
  /\ IF failure_count' >= failure_threshold
     THEN cb_state' = "OPEN" /\ last_failure_time' = now
     ELSE UNCHANGED <<cb_state, last_failure_time>>
  /\ cb_last' = "raised"
  /\ UNCHANGED <<non_breaker_vars, now>>

BreakerNext ==
  \/ Tick
  \/ BreakerCall
  \/ FuncReturns
  \/ FuncRaises

\* ------------------------------------------------- gameStore and ChatModal
\* The topic both cabins open the chat with.
CabinTopic == "Feynman learning basics"

\* Position prop the Scene gives the CabinComplex.
CabinPosition == "cabin_position"

\* What the user can have in the input box: nothing, blanks, a short text, a
\* text of more than 50 characters.
Inputs == {"", "blank", "short", "long"}

\* input.trim()
Trim(text) == IF text = "blank" THEN "" ELSE text

RequestIds == 1..MaxRequests

NoRequest == [instance |-> 0, phase |-> "none", long |-> FALSE, chunks |-> 0]

\* The greeting the effect of ChatModal puts into a freshly opened chat.
Greeting == [role |-> "assistant", owner |-> 0, chunks_of |-> {}]

\* Initial state of the store; no ChatModal is mounted.
WebappInit ==
  /\ isChatOpen = FALSE
  /\ currentTopic = ""
  /\ cameraFocusTarget = "null"
  /\ isCameraAnimating = FALSE
  /\ wisdomTrees = 0
  /\ completedTopics = <<>>
  /\ chat_instance = 0
  /\ mounts = 0
  /\ messages = <<>>
  /\ input = ""
  /\ isLoading = FALSE
  /\ requests = [r \in RequestIds |-> NoRequest]

\* `cameraFocusTarget && <FocusedChat .../>` of the Scene: truthiness
Truthy(target) == target \notin {"null", "undefined"}

\* openChat of the store
StoreOpenChat(new_topic, position) ==
  /\ isChatOpen' = TRUE
  /\ currentTopic' = new_topic
  /\ cameraFocusTarget' = position
  /\ isCameraAnimating' = TRUE
  /\ UNCHANGED <<wisdomTrees, completedTopics>>

\* closeChat of the store
StoreCloseChat ==
  /\ isChatOpen' = FALSE
  /\ cameraFocusTarget' = "null"
  /\ isCameraAnimating' = TRUE
  /\ UNCHANGED <<currentTopic, wisdomTrees, completedTopics>>

\* The Scene re-renders after a store update: the ChatModal inside
\* FocusedChat is mounted with fresh state (its effect puts the greeting in
\* when the chat is open on a topic), unmounted with its state discarded, or
\* kept, its effect running again when isChatOpen or currentTopic changed.
Render ==
  LET greets == isChatOpen' /\ currentTopic' # "" IN
  IF ~Truthy(cameraFocusTarget) /\ Truthy(cameraFocusTarget')
  THEN /\ mounts < MaxMounts
       /\ mounts' = mounts + 1
       /\ chat_instance' = mounts + 1
       /\ messages' = IF greets THEN <<Greeting>> ELSE <<>>
       /\ input' = ""
       /\ isLoading' = FALSE
  ELSE IF Truthy(cameraFocusTarget) /\ ~Truthy(cameraFocusTarget')
  THEN /\ chat_instance' = 0
       /\ messages' = <<>>
       /\ input' = ""
       /\ isLoading' = FALSE
       /\ UNCHANGED mounts
  ELSE /\ messages' = IF /\ chat_instance # 0
                          /\ <<isChatOpen', currentTopic'>> # <<isChatOpen, currentTopic>>
                          /\ greets
                       THEN <<Greeting>> ELSE messages
       /\ UNCHANGED <<chat_instance, mounts, input, isLoading>>

\* onClick of the CabinComplex: openChat with the position prop, when it has one
CabinComplexClick ==
  /\ StoreOpenChat(CabinTopic, CabinPosition)
  /\ Render
  /\ UNCHANGED <<non_webapp_vars, requests>>

\* onClick of the Cabin: openChat with the topic alone
CabinClick ==
  /\ StoreOpenChat(CabinTopic, "undefined")
  /\ Render
  /\ UNCHANGED <<non_webapp_vars, requests>>

\* The close button of the ChatModal, rendered while isChatOpen
CloseChatClick ==
  /\ chat_instance # 0
  /\ isChatOpen
  /\ StoreCloseChat
  /\ Render
  /\ UNCHANGED <<non_webapp_vars, requests>>

\* onRest of the camera animation: setCameraAnimating(false)
SetCameraAnimating ==
  /\ isCameraAnimating
  /\ isCameraAnimating' = FALSE
  /\ UNCHANGED <<non_webapp_vars, isChatOpen, currentTopic, cameraFocusTarget,
                 wisdomTrees, completedTopics, chat_vars>>

\* onChange of the input box, which is disabled while isLoading
TypeInput(text) ==
  /\ chat_instance # 0
  /\ isChatOpen
  /\ ~isLoading
  /\ text # input
  /\ input' = text
  /\ UNCHANGED <<non_webapp_vars, store_vars, chat_instance, mounts, messages,
                 isLoading, requests>>

\* Variant of handleSubmit that forgets setIsLoading(true).
LoadingAfterSubmit_NotSet(loading) == loading

\* setIsLoading(true) of handleSubmit
LoadingAfterSubmit(loading) == TRUE

\* `if (!input.trim() || isLoading) return` of handleSubmit
SubmitAllowed(text, loading) == Trim(text) # "" /\ ~loading

\* handleSubmit up to `await streamChat(...)`
HandleSubmit(r) ==
  /\ chat_instance # 0
  /\ isChatOpen
  /\ SubmitAllowed(input, isLoading)
  /\ requests[r].phase = "none"
  /\ \A q \in 1..(r - 1) : requests[q].phase # "none"
  /\ messages' = Append(messages, [role |-> "user", owner |-> r, chunks_of |-> {}])
  /\ input' = ""
  /\ isLoading' = LoadingAfterSubmit(isLoading)
  /\ requests' = [requests EXCEPT ![r] = [instance |-> chat_instance, phase |-> "sent",
                                          long |-> (input = "long"), chunks |-> 0]]
  /\ UNCHANGED <<non_webapp_vars, store_vars, chat_instance, mounts>>

\* onReady of a request: a state update of an unmounted instance is dropped
OnReady(r) ==
  /\ requests[r].phase = "sent"
  /\ requests' = [requests EXCEPT ![r].phase = "ready"]
  /\ messages' = IF requests[r].instance = chat_instance
                  THEN Append(messages, [role |-> "assistant", owner |-> r, chunks_of |-> {}])
                  ELSE messages
  /\ UNCHANGED <<non_webapp_vars, store_vars, chat_instance, mounts, input, isLoading>>

\* onChunk of a request: the chunk goes to the last message when that is an
\* assistant message
OnChunk(r) ==
  /\ requests[r].phase = "ready"
  /\ requests[r].chunks < MaxChunks
  /\ requests' = [requests EXCEPT ![r].chunks = @ + 1]
  /\ messages' = IF /\ requests[r].instance = chat_instance
                     /\ messages # <<>>
                     /\ messages[Len(messages)].role = "assistant"
                  THEN [messages EXCEPT ![Len(messages)].chunks_of = @ \cup {r}]
                  ELSE messages
  /\ UNCHANGED <<non_webapp_vars, store_vars, chat_instance, mounts, input, isLoading>>

\* streamChat resolves: the rest of handleSubmit, with the topic and the
\* input it was called with
StreamEnds(r) ==
  /\ requests[r].phase \in {"sent", "ready"}
  /\ requests' = [requests EXCEPT ![r].phase = "done"]
  /\ isLoading' = IF requests[r].instance = chat_instance THEN FALSE ELSE isLoading
  /\ IF requests[r].long
     THEN /\ wisdomTrees' = wisdomTrees + 1
          /\ completedTopics' = Append(completedTopics, CabinTopic)
     ELSE UNCHANGED <<wisdomTrees, completedTopics>>
  /\ UNCHANGED <<non_webapp_vars, isChatOpen, currentTopic, cameraFocusTarget,
                 isCameraAnimating, chat_instance, mounts, messages, input>>

WebappNext ==
  \/ CabinComplexClick
  \/ CabinClick
  \/ CloseChatClick
  \/ SetCameraAnimating
  \/ \E text \in Inputs : TypeInput(text)
  \/ \E r \in RequestIds : HandleSubmit(r)
  \/ \E r \in RequestIds : OnReady(r)
  \/ \E r \in RequestIds : OnChunk(r)
  \/ \E r \in RequestIds : StreamEnds(r)

\* --------------------------------------------------------------------- Init
Init ==
  /\ topic \in Texts
  /\ user_explanation \in Texts
  /\ pc = "construct"
  /\ steps = 0
  /\ coordination_strategy \in CoordinationStrategies
  /\ current_phase = ""
  /\ coordinator_decision = NoDecision
  /\ stage_results = {}
  /\ final_questions = FALSE
  /\ learning_insights = FALSE
  /\ learning_report = FALSE
  /\ completed_tasks = <<>>
  /\ error_log = <<>>
  /\ inflight = {}
  /\ hung = {}
  /\ events = <<>>
  /\ failed = "none"
  /\ QueueInit
  /\ RetryInit
  /\ BreakerInit
  /\ WebappInit

\* ------------------------------------------------------------------ actions
\* The session state is built from the inputs before the graph is invoked;
\* invalid inputs end the turn with InvalidInputError.  The streaming entry
\* point has sent its 'start' event by then.
ConstructSessionState ==
  /\ pc = "construct"
  /\ pc' = IF ValidInput(topic, user_explanation)
           THEN "coordinator_entry"
           ELSE "invalid_input_error"
  /\ events' = <<"start">>
  /\ UNCHANGED <<non_workflow_vars, topic, user_explanation, steps, coordination_strategy, state_vars,
                 inflight, hung, failed>>

\* An awaited call stops responding; only its timeout can resolve it.
Hang(a) ==
  /\ ~RecursionLimitReached
  /\ \/ pc = a
     \/ pc = "coordinator_entry" /\ a = "coordinator"
     \/ pc = "parallel" /\ a \in inflight
  /\ a \notin hung
  /\ hung' = hung \cup {a}
  /\ UNCHANGED <<non_workflow_vars, topic, user_explanation, events, pc, steps, coordination_strategy, state_vars, inflight, failed>>

\* Variant of the entry node that records itself in completed_tasks.
CoordinatorStores_MarksEntry(out, d) ==
  IF out = "ok"
  THEN /\ coordinator_decision' = d
       /\ current_phase' = d.next_phase
       /\ completed_tasks' = Append(completed_tasks, "coordinator_entry")
  ELSE UNCHANGED <<coordinator_decision, current_phase, completed_tasks>>

\* What _coordinator_entry_node writes: on a successful response the decision
\* and the phase it names, nothing else.
CoordinatorStores(out, d) ==
  /\ IF out = "ok"
     THEN /\ coordinator_decision' = d
          /\ current_phase' = d.next_phase
     ELSE UNCHANGED <<coordinator_decision, current_phase>>
  /\ UNCHANGED completed_tasks

\* _coordinator_entry_node followed by the conditional edge _route_next_step
CoordinatorEntryNode(out, d) ==
  /\ pc = "coordinator_entry"
  /\ ~RecursionLimitReached
  /\ CallResolves("coordinator", out)
  /\ hung' = hung \ {"coordinator"}
  /\ failed' = RecordFailure("coordinator", out)
  /\ CoordinatorStores(out, d)
  /\ steps' = steps + 1
  /\ LET next == RouteNextStep(coordinator_decision', completed_tasks) IN
       \/ /\ next = "end"
          /\ pc' = "END"
          /\ inflight' = {}
       \/ /\ next = "finalization"
          /\ pc' = FinalizationTask
          /\ inflight' = {}
       \/ /\ next \in Stages
          /\ pc' = next
          /\ inflight' = {}
       \/ /\ next \in Stages
          /\ coordination_strategy = "parallel"
          /\ \E S \in ParallelBatches(next, completed_tasks) :
               /\ pc' = "parallel"
               /\ inflight' = S
  /\ UNCHANGED <<non_workflow_vars, topic, user_explanation, events, coordination_strategy, stage_results, final_questions,
                 learning_insights, learning_report, error_log>>

\* Variant of the stage nodes that replaces the results written so far by
\* the result of the stage that returns.
StageMerge_DropsUpstream(s, out) ==
  IF out = "ok"
  THEN /\ stage_results' = {s}
       /\ completed_tasks' = Append(completed_tasks, s)
       /\ final_questions' = (final_questions \/ s = "question_generation")
       /\ learning_insights' = (learning_insights \/ s = "insight_synthesis")
  ELSE UNCHANGED <<stage_results, completed_tasks, final_questions, learning_insights>>

\* What a stage node does with the response of its agent
\* (_explanation_analysis_node ... _insight_synthesis_node).
StageMerge(s, out) ==
  IF out = "ok"
  THEN /\ stage_results' = stage_results \cup {s}
       /\ completed_tasks' = Append(completed_tasks, s)
       /\ final_questions' = (final_questions \/ s = "question_generation")
       /\ learning_insights' = (learning_insights \/ s = "insight_synthesis")
  ELSE UNCHANGED <<stage_results, completed_tasks, final_questions, learning_insights>>

\* A stage node run on its own; its edge leads back to coordinator_entry.
StageNode(s, out) ==
  /\ pc = s
  /\ s \in Stages
  /\ ~RecursionLimitReached
  /\ CallResolves(s, out)
  /\ hung' = hung \ {s}
  /\ failed' = RecordFailure(s, out)
  /\ StageMerge(s, out)
  /\ steps' = steps + 1
  /\ pc' = "coordinator_entry"
  /\ UNCHANGED <<non_workflow_vars, topic, user_explanation, events, coordination_strategy, current_phase, coordinator_decision,
                 learning_report, error_log, inflight>>

\* One stage of a concurrent batch returns (asyncio.gather): its merge runs
\* without an await, the batch ends when every stage of it has returned.
ParallelStageNode(s, out) ==
  /\ pc = "parallel"
  /\ s \in inflight
  /\ ~RecursionLimitReached
  /\ CallResolves(s, out)
  /\ hung' = hung \ {s}
  /\ failed' = RecordFailure(s, out)
  /\ StageMerge(s, out)
  /\ inflight' = inflight \ {s}
  /\ IF inflight' = {}
     THEN pc' = "coordinator_entry" /\ steps' = steps + 1
     ELSE UNCHANGED <<pc, steps>>
  /\ UNCHANGED <<non_workflow_vars, topic, user_explanation, events, coordination_strategy, current_phase, coordinator_decision,
                 learning_report, error_log>>

\* Variant of the finalization node without its repeat-execution guard.
FinalizationAlreadyDone_NoGuard == FALSE

\* Guard at the top of _coordinator_finalization_node
FinalizationAlreadyDone == FinalizationTask \in Range(completed_tasks)

\* Variant of the finalization node that forgets its completion marker.
MarkFinalizationCompleted_Missing(ct) == ct

\* state["completed_tasks"].append("coordinator_finalization"), in the try
\* block and in the except block of the finalization node alike.
MarkFinalizationCompleted(ct) == Append(ct, FinalizationTask)

\* _coordinator_finalization_node; its edge leads back to coordinator_entry.
CoordinatorFinalizationNode(out) ==
  /\ pc = FinalizationTask
  /\ ~RecursionLimitReached
  /\ steps' = steps + 1
  /\ pc' = "coordinator_entry"
  /\ IF FinalizationAlreadyDone
     THEN /\ out = "skipped"
          /\ UNCHANGED <<state_vars, hung, failed>>
     ELSE /\ \/ CallResolves(FinalizationTask, out)
             \/ out = "thrown" /\ FinalizationTask \notin hung
          /\ hung' = hung \ {FinalizationTask}
          /\ failed' = RecordFailure(IF out = "thrown" THEN FinalizationException
                                     ELSE FinalizationTask, out)
          /\ learning_report' = (out = "ok")
          /\ current_phase' = IF out = "thrown" THEN current_phase ELSE "completed"
          /\ completed_tasks' = MarkFinalizationCompleted(completed_tasks)
          /\ UNCHANGED <<coordinator_decision, stage_results, final_questions,
                         learning_insights, error_log>>
  /\ UNCHANGED <<non_workflow_vars, topic, user_explanation, events, coordination_strategy, inflight>>

\* LangGraph raises GraphRecursionError; the run is abandoned where it stands.
RecursionLimitError ==
  /\ RecursionLimitReached
  /\ pc \notin Terminal \cup {"construct", "invalid_input_error"}
  /\ pc' = "recursion_error"
  /\ inflight' = {}
  /\ hung' = {}
  /\ UNCHANGED <<non_workflow_vars, topic, user_explanation, events, steps, coordination_strategy, state_vars, failed>>

\* Variant of the stream that sends each result when its stage merged.
StreamOrder_MergeOrder(ct) ==
  LET produced(i) == IF ct[i] = "question_generation" THEN <<"question">>
                     ELSE IF ct[i] = "insight_synthesis" THEN <<"insight">>
                     ELSE <<>>
      upto[i \in 0..Len(ct)] == IF i = 0 THEN <<>> ELSE upto[i - 1] \o produced(i)
  IN upto[Len(ct)]

\* stream_multi_agent_workflow sends the results by type: the loop over
\* result["questions"], then the loop over result["learning_insights"].
StreamOrder(ct) == <<"question", "insight">>

\* The result field an event type is read from: no event for an empty list.
StreamAvailable(type) ==
  \/ type = "question" /\ final_questions
  \/ type = "insight" /\ learning_insights

\* stream_multi_agent_workflow after `await execute_multi_agent_workflow`
\* has returned its result: the next event type not yet sent.
StreamResults ==
  /\ pc = "END"
  /\ LET pending == SelectSeq(StreamOrder(completed_tasks),
                              LAMBDA type : StreamAvailable(type) /\ type \notin Range(events))
     IN /\ pending # <<>>
        /\ events' = Append(events, Head(pending))
  /\ UNCHANGED <<non_workflow_vars, topic, user_explanation, pc, steps, coordination_strategy, state_vars,
                 inflight, hung, failed>>

Outcomes == {"ok", "failed", "timeout", "thrown", "skipped"}

Next ==
  \/ ConstructSessionState
  \/ \E a \in Agents : Hang(a)
  \/ \E out \in Outcomes, d \in Decisions : CoordinatorEntryNode(out, d)
  \/ \E s \in Stages, out \in Outcomes : StageNode(s, out)
  \/ \E s \in Stages, out \in Outcomes : ParallelStageNode(s, out)
  \/ \E out \in Outcomes : CoordinatorFinalizationNode(out)
  \/ RecursionLimitError
  \/ StreamResults

Spec == Init /\ [][Next]_vars

\* The event loop keeps running whatever is ready: an awaited call returns or
\* is timed out, and the graph executes the next superstep.
FairSpec == Spec /\ WF_vars(Next)

\* Priority order in which the Coordinator proposes the stages.
PriorityOrder == <<"explanation_analysis", "knowledge_validation", "question_generation",
                   "conversation_orchestration", "insight_synthesis">>

\* Variant of the decision algorithm that proposes the required stages
\* first and leaves validation for later.
CoordinatorDecide_RequiredFirst(ct) ==
  IF all_required_completed(ct)
  THEN [next_phase |-> "finalization"]
  ELSE IF "explanation_analysis" \notin Range(ct)
       THEN [next_phase |-> "explanation_analysis"]
       ELSE [next_phase |-> "question_generation"]

\* The Coordinator's decision algorithm: finalization once the required
\* stages are complete, else the first stage of the priority order that is
\* not completed yet.
CoordinatorDecide(ct) ==
  IF all_required_completed(ct)
  THEN [next_phase |-> "finalization"]
  ELSE LET pending == SelectSeq(PriorityOrder, LAMBDA s : s \notin Range(ct))
       IN [next_phase |-> Head(pending)]

\* execute_multi_agent_workflow called directly, with a Coordinator that
\* follows its decision algorithm whenever its call succeeds.
PolicyNext ==
  \/ ConstructSessionState
  \/ \E a \in Agents : Hang(a)
  \/ \E out \in Outcomes : CoordinatorEntryNode(out, CoordinatorDecide(completed_tasks))
  \/ \E s \in Stages, out \in Outcomes : StageNode(s, out)
  \/ \E s \in Stages, out \in Outcomes : ParallelStageNode(s, out)
  \/ \E out \in Outcomes : CoordinatorFinalizationNode(out)
  \/ RecursionLimitError

PolicySpec == Init /\ [][PolicyNext]_vars

\* Initial state of the components examined on their own: no turn is
\* submitted to the workflow.
ComponentInit ==
  /\ Init
  /\ topic = ""
  /\ user_explanation = ""
  /\ coordination_strategy = "sequential"

QueueSpec == ComponentInit /\ [][QueueNext]_vars

RetrySpec == ComponentInit /\ [][RetryNext]_vars

BreakerSpec == ComponentInit /\ [][BreakerNext]_vars

WebappSpec == ComponentInit /\ [][WebappNext]_vars

\* Requests of the mounted ChatModal whose streamChat call has not resolved
Outstanding ==
  {r \in RequestIds : /\ requests[r].phase \in {"sent", "ready"}
                      /\ chat_instance # 0
                      /\ requests[r].instance = chat_instance}

TypeOK ==
  /\ pc \in Stages \cup {"construct", "invalid_input_error", "coordinator_entry",
                         "parallel", FinalizationTask} \cup Terminal
  /\ topic \in Texts /\ user_explanation \in Texts
  /\ steps \in Nat
  /\ hung \subseteq Agents
  /\ inflight \subseteq Stages
  /\ events \in Seq({"start", "question", "insight"})

\* Coordinator calls made so far: coordinator_entry is the entry point and
\* every other node returns to it, so it runs in every other superstep.
DecisionAttempts == (steps + 1) \div 2

\* Position of the first event of a type in the stream, 0 when none was sent.
EventIndex(type) ==
  IF type \in Range(events)
  THEN CHOOSE i \in 1..Len(events) :
         events[i] = type /\ \A j \in 1..(i - 1) : events[j] # type
  ELSE 0

\* Position of a task in completed_tasks, 0 when it is not completed.
MergeIndex(task) ==
  IF task \in Range(completed_tasks)
  THEN CHOOSE i \in 1..Len(completed_tasks) :
         completed_tasks[i] = task /\ \A j \in 1..(i - 1) : completed_tasks[j] # task
  ELSE 0

\* A superstep of coordinator_entry: the Coordinator is called and
\* _route_next_step is evaluated on its decision.
RouteEvaluated == pc = "coordinator_entry" /\ steps' = steps + 1

\* The step in which the node of stage s returns, alone or as part of a batch.
StageReturned(s) ==
  \/ pc = s /\ steps' = steps + 1
  \/ pc = "parallel" /\ s \in inflight /\ s \notin inflight' /\ pc' # "recursion_error"

\* ================================================================== claims

\* C1 -- No re-entry: whatever the Coordinator decides and whichever calls
\* succeed or fail, no task name (the finalization marker included) occurs
\* more than once in completed_tasks.
C1_NoReentry ==
  \A t \in Stages \cup {FinalizationTask} : Count(completed_tasks, t) <= 1

\* C1 witness: a turn with failures in which several stages and finalization
\* have completed.
C1_Witness ==
  /\ failed = "several"
  /\ Len(completed_tasks) >= 4
  /\ FinalizationTask \in Range(completed_tasks)

C3_MinimumBarShortCircuit ==
  [][(/\ pc = "coordinator_entry"
      /\ all_required_completed(completed_tasks)
      /\ steps' = steps + 1)
     => pc' = FinalizationTask]_vars

\* C3 witness: finalization was chosen with both required tasks completed
\* while the Coordinator's decision names a stage that is still pending.
C3_Witness ==
  /\ pc = FinalizationTask
  /\ all_required_completed(completed_tasks)
  /\ coordinator_decision.next_phase \in Stages \ Range(completed_tasks)

\* C4 -- A failed stage is still marked completed: when a stage node returns,
\* the stage is in completed_tasks whether or not the response succeeded; a
\* success writes the stage's result, a failure appends one record to
\* error_log and writes no result.
C4_FailedStageStillCompleted ==
  [][\A s \in Stages :
        StageReturned(s) =>
          /\ s \in Range(completed_tasks')
          /\ \/ s \in stage_results' /\ error_log' = error_log
             \/ s \notin stage_results' /\ Len(error_log') = Len(error_log) + 1]_vars

\* C5 -- Error isolation: a turn in which exactly one Stage Agent fails, on
\* every call made to it, still ends in the end state with the final output
\* (the learning report of a successful finalization) written.
C5_ErrorIsolation ==
  (failed \in Stages /\ failed \notin Range(completed_tasks) /\ pc \in Terminal)
    => (pc = "END" /\ learning_report)

\* C6 -- Finalization runs at most once per turn: the finalization marker is
\* in completed_tasks at most once, and running the finalization node when the
\* marker is already there leaves the session state unchanged.
C6_FinalizationRunsOnce ==
  [][/\ Count(completed_tasks', FinalizationTask) <= 1
     /\ (pc = FinalizationTask /\ FinalizationTask \in Range(completed_tasks))
          => UNCHANGED state_vars]_vars

\* C6 witness: the finalization node is entered again after a finalization
\* that has already been skipped once (finalization cannot complete before
\* superstep 6 when the route re-enters it, the first repeat ends at 8).
C6_Witness ==
  /\ pc = FinalizationTask
  /\ FinalizationTask \in Range(completed_tasks)
  /\ steps >= 9

\* C7 -- If every Coordinator decision call fails, the turn still reaches the
\* end state with finalization completed and error_log holds exactly one
\* entry per attempted decision.
C7_CoordinatorAlwaysThrows ==
  (pc \in Terminal /\ coordinator_decision = NoDecision)
    => /\ pc = "END"
       /\ FinalizationTask \in Range(completed_tasks)
       /\ Len(error_log) = DecisionAttempts

\* C8 -- When the iteration counter reaches the configured maximum, the run
\* goes through finalization to the end state with a warning entry in
\* error_log, and no exception reaches the caller.
C8_IterationCeilingForcesFinalization ==
  /\ pc # "recursion_error"
  /\ (pc \in Terminal /\ RecursionLimitReached)
       => (FinalizationTask \in Range(completed_tasks) /\ error_log # <<>>)

\* C9 -- The Router never blocks on a call that does not return: the call's
\* timeout resolves it, the node treats it as a failed response (a stage
\* merges nothing, the failure is on record), and the graph moves on.
C9_TimeoutResolvesHang ==
  /\ (hung # {}) ~> (hung = {})
  /\ [][\A a \in Agents :
           (a \in hung /\ a \notin hung' /\ pc' # "recursion_error")
             => /\ failed' \in {a, "several"}
                /\ a \in Stages => /\ completed_tasks' = completed_tasks
                                   /\ stage_results' = stage_results]_vars

\* C9 witness: a stage call hangs while another call of the turn has already
\* been resolved as a failure.
C9_Witness ==
  /\ \E s \in Stages : s \in hung /\ pc = s
  /\ failed # "none"

\* C10 -- Under strategy=parallel every merge of a concurrent batch applies
\* one stage's response only, and when the batch has finished both stages
\* are in completed_tasks, each with its result or its error record.
C10_ParallelMergesSerialized ==
  [][/\ \A s \in Stages :
          (pc = "parallel" /\ StageReturned(s))
            => /\ completed_tasks' \in {completed_tasks, Append(completed_tasks, s)}
               /\ stage_results' \subseteq stage_results \cup {s}
     /\ (pc = "parallel" /\ pc' = "coordinator_entry")
          => \A s \in ParallelAnalysisStages :
                /\ s \in Range(completed_tasks')
                /\ \/ s \in stage_results'
                   \/ \E i \in 1..Len(error_log') : error_log'[i].stage = s]_vars

\* C11 -- If topic or user_explanation is empty, construction of the session
\* state fails with InvalidInputError before the Coordinator or any Stage Agent
\* is invoked: no superstep is executed and the state stays as constructed.
C11_InvalidInputRejected ==
  (topic = "" \/ user_explanation = "")
    => /\ pc \in {"construct", "invalid_input_error"}
       /\ steps = 0
       /\ hung = {}
       /\ failed = "none"
       /\ coordinator_decision = NoDecision
       /\ completed_tasks = <<>>

\* C11 witness: a turn with an empty explanation has been rejected.
C11_Witness ==
  /\ pc = "invalid_input_error"
  /\ topic # ""
  /\ user_explanation = ""

\* C12 (as stated) -- final_output (questions, insights, report) is populated
\* only at finalization: while finalization has not run, all three are empty.
C12_FinalOutputOnlyAtFinalization ==
  FinalizationTask \notin Range(completed_tasks)
    => (~final_questions /\ ~learning_insights /\ ~learning_report)

\* C12 (amended) -- only learning_report is populated at finalization: it is
\* empty while finalization has not run; final_questions is written when
\* question_generation completes and learning_insights when insight_synthesis
\* completes, which may be before finalization.
C12_ReportOnlyAtFinalization ==
  /\ FinalizationTask \notin Range(completed_tasks) => ~learning_report
  /\ final_questions <=> "question_generation" \in Range(completed_tasks)
  /\ learning_insights <=> "insight_synthesis" \in Range(completed_tasks)

\* C12 witness: finalization is about to run for the first time with the
\* questions already extracted and no report yet.
C12_Witness ==
  /\ pc = FinalizationTask
  /\ FinalizationTask \notin Range(completed_tasks)
  /\ final_questions
  /\ ~learning_report

C16_ReentryGuardReturnsEnd ==
  [][(RouteEvaluated /\ FinalizationTask \in Range(completed_tasks))
       => pc' = "END"]_vars

\* C17 -- every turn that ends has run the finalization node exactly once
\* before: in the end state finalization is in completed_tasks, also when the
\* turn ended because the iteration ceiling was hit.
C17_FinalizationBeforeEveryEnd ==
  pc \in Terminal => Count(completed_tasks, FinalizationTask) = 1

\* C18 (as stated) -- when the decision names a stage that is already
\* completed, the route falls through to finalization.
C18_CompletedStageFallsToFinalization ==
  [][(RouteEvaluated /\ coordinator_decision'.next_phase \in Range(completed_tasks))
       => pc' = FinalizationTask]_vars

\* C18 (amended) -- a completed stage is never dispatched again: when the
\* decision names a completed stage the route returns finalization, or end,
\* which it only does with finalization already in completed_tasks, and
\* never that stage (alone or in a concurrent batch).
C18_CompletedStageNotRedispatched ==
  [][(RouteEvaluated /\ coordinator_decision'.next_phase \in Range(completed_tasks))
       => \/ pc' = FinalizationTask
          \/ pc' = "END" /\ FinalizationTask \in Range(completed_tasks)]_vars

\* C18 witness: the route has fallen through to finalization on a decision
\* naming a completed stage, with the required stages incomplete.
C18_Witness ==
  /\ pc = FinalizationTask
  /\ coordinator_decision.next_phase \in Range(completed_tasks)
  /\ FinalizationTask \notin Range(completed_tasks)
  /\ ~all_required_completed(completed_tasks)

\* C19 -- once a Coordinator decision call has failed (and nothing else has)
\* the next transition is to finalization: no stage is dispatched afterwards
\* and the Coordinator is not called again, so the turn is in finalization
\* or at its end.
C19_CoordinatorFailureGoesToFinalization ==
  failed = "coordinator" => pc \in {FinalizationTask, "END"}

\* C20 -- when the finalization logic throws (and nothing else has failed),
\* finalization is in completed_tasks when the node returns and the turn
\* proceeds to end: the finalization node is not entered again and the turn
\* does not end in the recursion-limit error.
C20_ThrownFinalizationStillEnds ==
  failed = FinalizationException
    => /\ FinalizationTask \in Range(completed_tasks)
       /\ pc \in {"coordinator_entry", "END"}

\* C15 -- on a valid input where the Coordinator and every dispatched stage
\* succeed, the turn ends at END and not in the recursion-limit error, with
\* no error entries, and with explanation_analysis completed before
\* question_generation and question_generation before finalization.
C15_HappyPathCompletes ==
  (failed = "none" /\ pc \in Terminal)
    => /\ pc = "END"
       /\ error_log = <<>>
       /\ 0 < MergeIndex("explanation_analysis")
       /\ MergeIndex("explanation_analysis") < MergeIndex("question_generation")
       /\ MergeIndex("question_generation") < MergeIndex(FinalizationTask)

\* C21 -- the Router invokes each Stage Agent at most once per turn: a stage
\* that has been invoked already (it is completed, or it is the agent whose
\* call failed) is not dispatched by a later route evaluation, neither alone
\* nor as part of a concurrent batch.
C21_StageInvokedAtMostOnce ==
  [][\A s \in Stages :
       (RouteEvaluated /\ (s \in Range(completed_tasks) \/ failed = s))
         => ~(pc' = s \/ (pc' = "parallel" /\ s \in inflight'))]_vars

C24_StageResultsOnlyGrow ==
  [][/\ stage_results \subseteq stage_results'
     /\ \A s \in stage_results :
          ~(StageReturned(s) /\ completed_tasks' # completed_tasks)]_vars

\* C24 witness: two stages have written their results and finalization has
\* run after them.
C24_Witness ==
  /\ Cardinality(stage_results) >= 2
  /\ FinalizationTask \in Range(completed_tasks)

\* C26 -- a task added to the AsyncTaskQueue is executed at most
\* max_retries + 1 times: every execution but the current or last one was a
\* failed attempt counted in retry_count, the task is in the queue at most
\* once and only while PENDING or RETRY, and a COMPLETED or FAILED task is
\* neither queued nor executed again.
C26_BoundedRetries ==
  \A t \in TaskIds :
    /\ tasks[t].executions <= tasks[t].max_retries + 1
    /\ tasks[t].retry_count <= tasks[t].max_retries
    /\ tasks[t].executions <= tasks[t].retry_count + 1
    /\ Count(task_queue, t) <= 1
    /\ t \in Range(task_queue) => tasks[t].status \in {"PENDING", "RETRY"}
    /\ tasks[t].status \in {"COMPLETED", "FAILED"}
         => /\ t \notin Range(task_queue)
            /\ \A w \in Workers : workers[w] # t

\* C26 witness: a task has failed permanently after max_retries + 1
\* executions, with at least one retry.
C26_Witness ==
  \E t \in TaskIds :
    /\ tasks[t].status = "FAILED"
    /\ tasks[t].max_retries >= 1
    /\ tasks[t].executions = tasks[t].max_retries + 1

\* C27 -- withRetry calls operation at most maxRetries times; it resolves
\* with the result of the first successful attempt, which is the last call
\* made; it rejects after maxRetries failed attempts with the error of the
\* last one; and it has waited once before every retry, the first time for
\* the delay it was given and each further time twice as long as before.
C27_RetryBounded ==
  /\ calls <= retry_args.maxRetries
  /\ retry_pc = "resolved"
       => /\ retry_result = calls
          /\ lastError = calls - 1
  /\ retry_pc = "rejected"
       => /\ calls = retry_args.maxRetries
          /\ lastError = retry_args.maxRetries
  /\ Len(waits) = IF calls = 0 THEN 0
                  ELSE IF retry_pc = "waiting" THEN calls ELSE calls - 1
  /\ \A i \in 1..Len(waits) :
       waits[i] = IF i = 1 THEN retry_args.delay ELSE 2 * waits[i - 1]

\* C27 witness: the third attempt has failed with maxRetries = 3 and the
\* call has rejected, after waiting 1000 ms and then 2000 ms.
C27_Witness ==
  /\ retry_pc = "rejected"
  /\ retry_args.maxRetries = 3
  /\ calls = 3
  /\ lastError = 3
  /\ waits = <<1000, 2000>>

\* C29 -- while the breaker is OPEN and no more than timeout seconds have
\* passed since last_failure_time, a call is rejected and the wrapped
\* function is not invoked; an invocation that finds the breaker OPEN
\* happens only after the timeout has elapsed and leaves it HALF_OPEN.
C29_OpenBreakerRejects ==
  [][/\ (cb_state = "OPEN" /\ now - last_failure_time <= timeout)
          => /\ in_flight' <= in_flight
             /\ cb_last' \in {cb_last, "rejected", "returned", "raised"}
     /\ (in_flight' > in_flight /\ cb_state = "OPEN")
          => /\ now - last_failure_time > timeout
             /\ cb_state' = "HALF_OPEN"
     /\ in_flight' > in_flight => cb_state' \in {"CLOSED", "HALF_OPEN"}]_vars

\* C29 witness: the breaker is OPEN, exactly timeout seconds after the last
\* failure, and has just rejected a call.
C29_Witness ==
  /\ cb_state = "OPEN"
  /\ now - last_failure_time = timeout
  /\ cb_last = "rejected"

\* C28 -- while a chat request is in flight isLoading is true and a further
\* submit is ignored: the mounted chat component has at most one streamChat
\* call outstanding, isLoading is true exactly while it has one, and every
\* chunk in its messages sits in the assistant message of the request that
\* streamed it.
C28_OneRequestInFlight ==
  /\ Cardinality(Outstanding) <= 1
  /\ chat_instance # 0 => (isLoading <=> Outstanding # {})
  /\ \A i \in 1..Len(messages) :
       /\ messages[i].chunks_of \subseteq {messages[i].owner}
       /\ messages[i].chunks_of # {} => messages[i].role = "assistant"

\* C28 witness: the second request of a chat is in flight and has streamed a
\* chunk into its own assistant message, after the first one has finished.
C28_Witness ==
  /\ isLoading
  /\ Outstanding = {2}
  /\ requests[1].instance = chat_instance
  /\ requests[1].phase = "done"
  /\ messages[Len(messages)] = [role |-> "assistant", owner |-> 2, chunks_of |-> {2}]

\* C30 -- after any sequence of openChat and closeChat actions isChatOpen is
\* true exactly when cameraFocusTarget is set (non-null).
C30_ChatOpenIffCameraFocused ==
  isChatOpen <=> Truthy(cameraFocusTarget)
====
